---- MODULE Spec2Model ----
(***************************************************************************)
(* The Fibonacci step circuit (FibonacciIter, FibonacciCircuit::configure  *)
(* and FibonacciCircuit::synthesize_step) and the driver `main` of         *)
(* src/src/main.rs.                                                        *)
(*                                                                         *)
(* The sirius library (Layouter, Region, CommitmentKey, IVC) is the        *)
(* environment: each of its fallible operations either succeeds or fails,  *)
(* chosen nondeterministically, and it calls synthesize_step of the        *)
(* primary circuit while IVC::new or IVC::fold_step is running.            *)
(***************************************************************************)
EXTENDS Integers, Sequences, FiniteSets, TLC

\* ---- program constants ------------------------------------------------
FOLD_STEP_COUNT == 5
A1 == 2
ELEMENTS_NUM == 10

\* ---- bounds of the model ----------------------------------------------
\* order of the scalar field F (a small modulus stands for the bn256 one)
FieldModulus == 101
\* the input cells z_i hold values in 0..MaxSeed
MaxSeed == 1
\* besides ELEMENTS_NUM, the circuit is instantiated with N in 0..MaxN
MaxN == 3
\* at most MaxFail region operations fail within one synthesize_step
MaxFail == 1

Field == 0..(FieldModulus - 1)
Seeds == 0..MaxSeed
NSet == (0..MaxN) \cup {ELEMENTS_NUM}

VARIABLES
    \* main
    pc,         \* position in main
    step,       \* the loop variable of `for step in 1..FOLD_STEP_COUNT`
    ops,        \* fallible library operations main has invoked, with results
    out,        \* lines printed so far
    \* FibonacciCircuit<N>
    N,          \* the const generic ELEMENTS_NUM of the primary circuit
    \* one call of synthesize_step
    spc,        \* "idle", "region" (inside the assign_region closure), "returned"
    z_i,        \* values of the input cells [a, b]
    regions,    \* regions opened by this call
    iter,       \* FibonacciIter(self.0, self.1)
    count,      \* Enumerate's counter
    takeN,      \* Take's remaining count
    skipN,      \* Skip's remaining count
    cells,      \* advice cells assigned in column e, in assignment order
    copies,     \* copy constraints installed by constrain_equal
    enabled,    \* rows at which selector s is enabled
    failed,     \* region operations that returned Err in this call
    collected,  \* the Vec built by collect
    residual,   \* the Err that stopped collect, if any
    result      \* what synthesize_step returned

synthVars == <<spc, z_i, regions, iter, count, takeN, skipN, cells, copies,
               enabled, failed, collected, residual, result>>
vars == <<pc, step, ops, out, N, spc, z_i, regions, iter, count, takeN, skipN,
          cells, copies, enabled, failed, collected, residual, result>>

\* ---- field arithmetic ---------------------------------------------------
FAdd(x, y) == (x + y) % FieldModulus
FSub(x, y) == (x + FieldModulus - y) % FieldModulus

\* ---- FibonacciIter ------------------------------------------------------
\* mutant: the second component is updated from the already overwritten self.0
FibonacciIterNextStale(it) ==
    [item |-> it[1], it |-> <<it[2], FAdd(it[2], it[2])>>]

\* mutant: the item returned is self.0 after the update, not `cur`
FibonacciIterNextShifted(it) ==
    [item |-> it[2], it |-> <<it[2], FAdd(it[1], it[2])>>]

\* Iterator::next: cur = self.0; self.0 = self.1; self.1 = cur + self.1; Some(cur)
FibonacciIterNext(it) ==
    [item |-> it[1], it |-> <<it[2], FAdd(it[1], it[2])>>]

\* ---- FibonacciCircuit::configure ---------------------------------------
\* rotations of the three advice queries e1, e2, e3 of gate "fibo-block"
Rotations == <<-2, -1, 0>>

\* the gate polynomial without the selector factor: e1 + e2 - e3
GatePoly(e1, e2, e3) == FSub(FAdd(e1, e2), e3)

\* ---- FibonacciCircuit::synthesize_step ---------------------------------
\* what the closure does after assign_advice, by `match offset`
MatchOffset(offset) ==
    IF offset = 0 THEN "eq_a" ELSE IF offset = 1 THEN "eq_b" ELSE "enable"

\* mutant: one item too few is taken
TakeCountShort(n) == n + A1 - 1

\* .take(N + A1)
TakeCount(n) == n + A1

\* .skip(N)
SkipCount(n) == n

\* z_out.try_into().unwrap(): a Vec converts to [_; 2] iff its length is 2
TryIntoUnwrap(v) == IF Len(v) = A1 THEN "Ok" ELSE "Panic"

NoCells == <<>>

SynthIdle ==
    /\ spc = "idle"
    /\ z_i = <<0, 0>>
    /\ regions = 0
    /\ iter = <<0, 0>>
    /\ count = 0
    /\ takeN = 0
    /\ skipN = 0
    /\ cells = NoCells
    /\ copies = {}
    /\ enabled = {}
    /\ failed = {}
    /\ collected = NoCells
    /\ residual = "none"
    /\ result = "none"

\* the state of a call is dropped when the library operation returns
SynthReset ==
    /\ spc' = "idle"
    /\ z_i' = <<0, 0>>
    /\ regions' = 0
    /\ iter' = <<0, 0>>
    /\ count' = 0
    /\ takeN' = 0
    /\ skipN' = 0
    /\ cells' = NoCells
    /\ copies' = {}
    /\ enabled' = {}
    /\ failed' = {}
    /\ collected' = NoCells
    /\ residual' = "none"
    /\ result' = "none"

InLibrary == pc \in {"in_new", "in_fold"}

\* The library calls synthesize_step(config, layouter, z_i) with input cells
\* holding (a, b); the body opens region "main" and builds the iterator chain.
SynthesizeStep(a, b) ==
    /\ InLibrary
    /\ spc \in {"idle", "returned"}
    /\ spc' = "region"
    /\ z_i' = <<a, b>>
    /\ regions' = 1
    /\ iter' = <<a, b>>
    /\ count' = 0
    /\ takeN' = TakeCount(N)
    /\ skipN' = SkipCount(N)
    /\ cells' = NoCells
    /\ copies' = {}
    /\ enabled' = {}
    /\ failed' = {}
    /\ collected' = NoCells
    /\ residual' = "none"
    /\ result' = "none"
    /\ UNCHANGED <<pc, step, ops, out, N>>

\* One item is pulled through Skip<Take<Map<Enumerate<FibonacciIter>>>>:
\* FibonacciIter::next, the map closure at this offset (assign_advice, then
\* constrain_equal or selector enable, each ending the closure with Err when
\* it fails), then Skip drops the item or collect stores it.
\* f names the operation the environment fails: "none", "assign" or "constrain".
PullItem(f) ==
    /\ InLibrary
    /\ spc = "region"
    /\ residual = "none"
    /\ takeN > 0
    /\ f # "none" => Cardinality(failed) < MaxFail
    /\ LET nx     == FibonacciIterNext(iter)
           offset == count
           kind   == MatchOffset(offset)
           cell   == [row |-> offset, value |-> nx.item]
           ok     == f = "none"
       IN  /\ iter' = nx.it
           /\ count' = count + 1
           /\ takeN' = takeN - 1
           /\ cells' = IF f # "assign" THEN Append(cells, cell) ELSE cells
           /\ copies' = IF ok /\ kind = "eq_a" THEN copies \cup {[input |-> 1, row |-> offset]}
                        ELSE IF ok /\ kind = "eq_b" THEN copies \cup {[input |-> 2, row |-> offset]}
                        ELSE copies
           /\ enabled' = IF ok /\ kind = "enable" THEN enabled \cup {offset} ELSE enabled
           /\ failed' = IF ok THEN failed
                        ELSE failed \cup {[row |-> offset,
                                           op |-> IF f = "assign" THEN "assign_advice"
                                                  ELSE IF kind = "enable" THEN "enable"
                                                  ELSE "constrain_equal"]}
           /\ IF skipN > 0
              THEN /\ skipN' = skipN - 1
                   /\ UNCHANGED <<collected, residual>>
              ELSE /\ skipN' = skipN
                   /\ collected' = IF ok THEN Append(collected, cell) ELSE collected
                   /\ residual' = IF ok THEN "none" ELSE "Err"
    /\ UNCHANGED <<pc, step, ops, out, N, spc, z_i, regions, result>>

\* collect ends (Take exhausted or an Err reached it); assign_region returns the
\* closure's value, `?` returns an Err, otherwise try_into().unwrap().
RegionReturn ==
    /\ InLibrary
    /\ spc = "region"
    /\ residual = "Err" \/ takeN = 0
    /\ spc' = "returned"
    /\ result' = IF residual = "Err" THEN "Err" ELSE TryIntoUnwrap(collected)
    /\ UNCHANGED <<pc, step, ops, out, N, z_i, regions, iter, count, takeN, skipN,
                   cells, copies, enabled, failed, collected, residual>>

\* ---- main -----------------------------------------------------------------
\* mutant: the result of a fallible call is ignored
ExpectIgnored(ok, next) == next

\* .unwrap() / .expect(..): continue on Ok, panic on Err
Expect(ok, next) == IF ok THEN next ELSE "panicked"

\* mutant: an inclusive range
LoopRangeInclusive == 1..FOLD_STEP_COUNT

\* for step in 1..FOLD_STEP_COUNT
LoopRange == 1..(FOLD_STEP_COUNT - 1)

Res(ok) == IF ok THEN "Ok" ELSE "Err"

\* println!(line)
Println(line, next) ==
    /\ out' = Append(out, line)
    /\ pc' = next
    /\ UNCHANGED <<step, ops, N>>
    /\ UNCHANGED synthVars

\* a library call that main makes and that returns within one step
Call(name, ok, next) ==
    /\ ops' = Append(ops, [op |-> name, res |-> Res(ok)])
    /\ pc' = Expect(ok, next)
    /\ UNCHANGED <<step, out, N>>
    /\ UNCHANGED synthVars

\* main enters a library call during which the library runs the step circuit
Enter(name, next) ==
    /\ ops' = Append(ops, [op |-> name, res |-> "pending"])
    /\ pc' = next
    /\ UNCHANGED <<step, out, N>>
    /\ UNCHANGED synthVars

\* that call returns; a panic inside synthesize_step unwinds through it.
\* What the library makes of the step circuit's result is not in this
\* repository: it returns Ok or Err, whatever synthesize_step returned.
Return(ok, next) ==
    /\ spc \in {"idle", "returned"}
    /\ IF result = "Panic"
       THEN pc' = "panicked" /\ ops' = ops
       ELSE /\ ops' = [ops EXCEPT ![Len(ops)].res = Res(ok)]
            /\ pc' = Expect(ok, next)
    /\ SynthReset
    /\ UNCHANGED <<step, out, N>>

PrintStartPrimary ==
    /\ pc = "start"
    /\ Println("start setup primary commitment key: bn256", "load_primary")

LoadPrimaryKey ==
    /\ pc = "load_primary"
    /\ \E ok \in BOOLEAN : Call("load_primary_key", ok, "print_secondary")

PrintStartSecondary ==
    /\ pc = "print_secondary"
    /\ Println("start setup secondary commitment key: grumpkin", "load_secondary")

LoadSecondaryKey ==
    /\ pc = "load_secondary"
    /\ \E ok \in BOOLEAN : Call("load_secondary_key", ok, "new_pp")

NewDefaultPP ==
    /\ pc = "new_pp"
    /\ pc' = "ivc_new"
    /\ UNCHANGED <<step, ops, out, N>>
    /\ UNCHANGED synthVars

IvcNewCall ==
    /\ pc = "ivc_new"
    /\ Enter("new", "in_new")

IvcNewReturn ==
    /\ pc = "in_new"
    /\ \E ok \in BOOLEAN : Return(ok, "print_created")

PrintIvcCreated ==
    /\ pc = "print_created"
    /\ out' = Append(out, "ivc created")
    /\ pc' = "loop"
    /\ step' = 1
    /\ UNCHANGED <<ops, N>>
    /\ UNCHANGED synthVars

FoldStepCall ==
    /\ pc = "loop"
    /\ step \in LoopRange
    /\ Enter("fold_step", "in_fold")

FoldStepReturn ==
    /\ pc = "in_fold"
    /\ \E ok \in BOOLEAN : Return(ok, "print_fold")

PrintFold ==
    /\ pc = "print_fold"
    /\ out' = Append(out, "folding step was successful")
    /\ step' = step + 1
    /\ pc' = "loop"
    /\ UNCHANGED <<ops, N>>
    /\ UNCHANGED synthVars

LoopExit ==
    /\ pc = "loop"
    /\ step \notin LoopRange
    /\ pc' = "verify"
    /\ UNCHANGED <<step, ops, out, N>>
    /\ UNCHANGED synthVars

Verify ==
    /\ pc = "verify"
    /\ \E ok \in BOOLEAN : Call("verify", ok, "print_verified")

PrintVerified ==
    /\ pc = "print_verified"
    /\ Println("verification successful", "print_success")

PrintSuccess ==
    /\ pc = "print_success"
    /\ Println("success", "done")

Init ==
    /\ pc = "start"
    /\ step = 0
    /\ ops = <<>>
    /\ out = <<>>
    /\ N \in NSet
    /\ SynthIdle

Next ==
    \/ PrintStartPrimary
    \/ LoadPrimaryKey
    \/ PrintStartSecondary
    \/ LoadSecondaryKey
    \/ NewDefaultPP
    \/ IvcNewCall
    \/ \E a \in Seeds, b \in Seeds : SynthesizeStep(a, b)
    \/ \E f \in {"none", "assign", "constrain"} : PullItem(f)
    \/ RegionReturn
    \/ IvcNewReturn
    \/ PrintIvcCreated
    \/ FoldStepCall
    \/ FoldStepReturn
    \/ PrintFold
    \/ LoopExit
    \/ Verify
    \/ PrintVerified
    \/ PrintSuccess

Spec == Init /\ [][Next]_vars

\* ---- reference definitions the claims use ------------------------------
\* the sequence x[0] = a, x[1] = b, x[i] = x[i-2] + x[i-1] over the field
RECURSIVE X(_, _, _)
X(a, b, k) ==
    IF k = 0 THEN a % FieldModulus
    ELSE IF k = 1 THEN b % FieldModulus
    ELSE (X(a, b, k - 2) + X(a, b, k - 1)) % FieldModulus

Returned == spc = "returned"
ReturnedOk == spc = "returned" /\ result = "Ok"
Active == spc \in {"region", "returned"}
LastRow == N + A1 - 1
Values(v) == [i \in 1..Len(v) |-> v[i].value]
Rows(v) == [i \in 1..Len(v) |-> v[i].row]

\* the column of values an honest run assigns at rows 0..N+A1-1
Honest == [r \in 0..LastRow |-> X(z_i[1], z_i[2], r)]

\* a column satisfies every constraint this call has installed
Satisfies(col) ==
    /\ \A c \in copies : col[c.row] = z_i[c.input]
    /\ \A r \in enabled :
          GatePoly(col[r + Rotations[1]], col[r + Rotations[2]], col[r + Rotations[3]]) = 0

\* the honest column with the value at row r replaced by w
Replaced(r, w) == [Honest EXCEPT ![r] = w]

\* the column a run assigns when the value at row r is replaced by w before
\* the rows after it are derived
Rederived(r, w) ==
    LET h == Honest
        f[i \in 0..LastRow] ==
            IF i < r THEN h[i]
            ELSE IF i = r THEN w
            ELSE IF i < 2 THEN h[i]
            ELSE FAdd(f[i - 2], f[i - 1])
    IN  f

\* the columns that differ from the honest one by the alteration of one value
Tampered ==
    {Replaced(r, w) : r \in 0..LastRow, w \in Field}
        \cup {Rederived(r, w) : r \in 0..LastRow, w \in Field}

BothCopies == {[input |-> 1, row |-> 0], [input |-> 2, row |-> 1]}

\* ---- C1 -------------------------------------------------------------------
\* C1: the k-th item FibonacciIter(a, b) yields is x[k] of the sequence
\* x[0]=a, x[1]=b, x[i]=x[i-2]+x[i-1], and a synthesize_step that returns Ok
\* returns the cells of rows N and N+1 holding x[N] and x[N+1].
RecurrenceLaw ==
    /\ Active => iter = <<X(z_i[1], z_i[2], count), X(z_i[1], z_i[2], count + 1)>>
    /\ cells # NoCells =>
          cells[Len(cells)].value = X(z_i[1], z_i[2], cells[Len(cells)].row)
    /\ ReturnedOk =>
          collected = <<[row |-> N, value |-> X(z_i[1], z_i[2], N)],
                        [row |-> N + 1, value |-> X(z_i[1], z_i[2], N + 1)]>>

RecurrenceLawWitness ==
    /\ ReturnedOk
    /\ N = 3
    /\ z_i = <<1, 1>>
    /\ Values(collected) = <<3, 5>>

\* ---- C2 -------------------------------------------------------------------
\* C2 as stated: with z_in = (0, 1) and N = 10, a synthesize_step that returns
\* Ok returns cells holding (34, 55).
ConcreteCase ==
    (ReturnedOk /\ N = ELEMENTS_NUM /\ z_i = <<0, 1>>) =>
        Values(collected) = <<34, 55>>

\* C2 as amended: with z_in = (0, 1) and N = 10, a synthesize_step that returns
\* Ok returns the cells of rows 10 and 11, holding (55, 89).
ConcreteCaseAmended ==
    (ReturnedOk /\ N = ELEMENTS_NUM /\ z_i = <<0, 1>>) =>
        /\ Rows(collected) = <<10, 11>>
        /\ Values(collected) = <<55, 89>>

ConcreteCaseWitness ==
    /\ ReturnedOk
    /\ N = ELEMENTS_NUM
    /\ z_i = <<0, 1>>
    /\ failed = {}

\* ---- C3 -------------------------------------------------------------------
\* C3: whenever assign_advice, constrain_equal or a selector enable failed at
\* any row of the region, synthesize_step returns Err, never Ok.
ErrorsPropagate == (Returned /\ failed # {}) => result = "Err"

\* an operation failed at a row below N and the call returned Ok
SwallowedError ==
    /\ ReturnedOk
    /\ \E e \in failed : e.row < N

\* what holds of the code: an Err at a row >= N is returned
ErrorsAtOutputRowsPropagate ==
    (Returned /\ \E e \in failed : e.row >= N) => result = "Err"

\* ---- C4 -------------------------------------------------------------------
\* every row 0..N+A1-1 of the region holds a value
ColumnFull == Len(cells) = N + A1

\* C4: after a synthesize_step that returned Ok with a column of N+A1 values,
\* the honest column satisfies every installed constraint and no column that
\* differs from it by the alteration of one value does.
TamperDetected ==
    (ReturnedOk /\ ColumnFull) =>
        /\ Satisfies(Honest)
        /\ \A col \in Tampered : col # Honest => ~Satisfies(col)

\* a call returned Ok with a constraint of a row below N not installed, and an
\* altered column satisfies what is installed
UnderConstrained ==
    /\ ReturnedOk
    /\ ColumnFull
    /\ \E col \in Tampered : col # Honest /\ Satisfies(col)

\* what holds of the code: when no region operation failed
TamperDetectedWithoutFailure ==
    (ReturnedOk /\ failed = {}) =>
        /\ Satisfies(Honest)
        /\ \A col \in Tampered : col # Honest => ~Satisfies(col)

\* ---- C5 -------------------------------------------------------------------
\* C5: main invokes the key loads, then IVC::new once, then fold_step
\* FOLD_STEP_COUNT - 1 times, then verify once, in this order, each only after
\* the one before returned Ok; a run that reaches the end made exactly these.
ExpectedOps ==
    <<"load_primary_key", "load_secondary_key", "new">>
        \o [i \in 1..(FOLD_STEP_COUNT - 1) |-> "fold_step"]
        \o <<"verify">>

DriverOrder ==
    /\ Len(ops) <= Len(ExpectedOps)
    /\ \A i \in 1..Len(ops) : ops[i].op = ExpectedOps[i]
    /\ \A i \in 1..(Len(ops) - 1) : ops[i].res = "Ok"
    /\ pc = "done" => /\ Len(ops) = Len(ExpectedOps)
                      /\ ops[Len(ops)].res = "Ok"
                      /\ Cardinality({i \in 1..Len(ops) : ops[i].op = "fold_step"}) = 4

DriverOrderWitness ==
    /\ pc = "done"
    /\ ops[Len(ops)] = [op |-> "verify", res |-> "Ok"]

\* ---- C6 -------------------------------------------------------------------
\* C6: once a key load, IVC::new, a fold_step or verify returned Err, the run
\* has ended: that operation is the last one invoked, nothing runs after it,
\* and neither "verification successful" nor "success" is printed.
Printed(line) == \E i \in 1..Len(out) : out[i] = line

AbortOnFirstFailure ==
    /\ \A i \in 1..Len(ops) :
          ops[i].res = "Err" => /\ i = Len(ops)
                                /\ pc = "panicked"
    /\ pc = "panicked" => /\ ~Printed("verification successful")
                          /\ ~Printed("success")
                          /\ ~ENABLED Next
    /\ (\E i \in 1..Len(ops) : ops[i].op \in {"load_primary_key", "load_secondary_key"}
                               /\ ops[i].res = "Err")
          => \A i \in 1..Len(ops) : ops[i].op \notin {"new", "fold_step", "verify"}

AbortOnFirstFailureWitness ==
    /\ pc = "panicked"
    /\ Len(ops) = 5
    /\ ops[5] = [op |-> "fold_step", res |-> "Err"]

\* ---- C8 -------------------------------------------------------------------
\* C8: a synthesize_step that returned Ok opened one region, assigned the
\* rows 0, 1, ..., N+A1-1 in this order, each once, and returns the cells of
\* the last A1 rows.
RowLayout ==
    ReturnedOk => /\ regions = 1
                  /\ Rows(cells) = [i \in 1..(N + A1) |-> i - 1]
                  /\ collected = SubSeq(cells, N + 1, N + A1)

\* a call returned Ok although a row below N holds no cell
RowMissing ==
    /\ ReturnedOk
    /\ \E r \in 0..LastRow : \A i \in 1..Len(cells) : cells[i].row # r

\* what holds of the code: rows are assigned in increasing order and none
\* beyond N+A1-1, the cells returned are those of rows N and N+1, and every
\* row is there when no region operation failed
RowLayoutWithoutFailure ==
    /\ \A i \in 1..Len(cells) : cells[i].row <= LastRow
    /\ \A i \in 1..(Len(cells) - 1) : cells[i].row < cells[i + 1].row
    /\ ReturnedOk => /\ regions = 1
                     /\ Rows(collected) = <<N, N + 1>>
                     /\ \A i \in 1..A1 : \E j \in 1..Len(cells) : cells[j] = collected[i]
    /\ (ReturnedOk /\ failed = {}) => Rows(cells) = [i \in 1..(N + A1) |-> i - 1]

\* ---- C9 -------------------------------------------------------------------
\* C9: the selector is never enabled at a row whose rotations reach before
\* the region's start, and after a synthesize_step that returned Ok it is
\* enabled at exactly the rows 2..N+A1-1, with row 0 bound to z_in[0] and
\* row 1 to z_in[1] by copy constraints.
SelectorPlacement ==
    /\ \A r \in enabled : \A i \in 1..Len(Rotations) : r + Rotations[i] >= 0
    /\ ReturnedOk => /\ enabled = 2..LastRow
                     /\ copies = BothCopies

\* a call returned Ok with the selector off at a row in 2..N-1 or a seed unbound
GateOrCopyMissing ==
    /\ ReturnedOk
    /\ \/ enabled # 2..LastRow
       \/ copies # BothCopies

\* what holds of the code: the placement by `match offset`, complete when no
\* region operation failed
SelectorPlacementWithoutFailure ==
    /\ enabled \subseteq 2..LastRow
    /\ copies \subseteq BothCopies
    /\ (ReturnedOk /\ failed = {}) => /\ enabled = 2..LastRow
                                      /\ copies = BothCopies

\* ---- C10 ------------------------------------------------------------------
\* C10: whenever the region closure returns Ok the collected Vec has exactly
\* A1 cells, so try_into().unwrap() never panics: synthesize_step returns Err
\* or exactly A1 cells.
OutputWidth ==
    /\ (spc = "region" /\ residual = "none" /\ takeN = 0) => Len(collected) = A1
    /\ Returned => result \in {"Ok", "Err"}
    /\ ReturnedOk => Len(collected) = A1

OutputWidthWitness ==
    /\ ReturnedOk
    /\ N = 0
    /\ Rows(collected) = <<0, 1>>

====
